---- MODULE Spec2Model ----
(***************************************************************************)
(* State-machine model of src/main.py: the YouTube -> Telegram relay bot.  *)
(* One run of main() is a sequence of steps (pc); main_handler starts a    *)
(* run and returns its result.  The history file /tmp/posted_videos.json   *)
(* is the only state that survives a run.                                  *)
(***************************************************************************)
EXTENDS Integers, Sequences, FiniteSets, TLC

\* ------------------------------------------------------------------ bounds
\* longest list search_youtube returns in the model (max_results is 30)
MaxLen == 2
\* number of invocations of main_handler in one behaviour
MaxRuns == 2

\* ------------------------------------------------------- program constants
MAX_DURATION == 300
\* "filesize<45M" in format_selector, "best quality under 45 MB"; sizes in MB
Ceiling == 45
\* "height<=720" and "height<=480" in format_selector
MaxHeight == 720
FallbackHeight == 480

None == "None"
Ids == {"a", "b"}
\* invocations of the function: two, so that runs can be told apart
Procs == {1, 2}
\* values of the MAX_VIDEOS environment setting
Targets == {0, 1, 2}
\* values of the MIN_DURATION environment setting (30 is the default)
MinDurations == {0, 30}
\* the environments a run is deployed with: a credential missing, each
\* target with the default MIN_DURATION, and MIN_DURATION = 0
Environments ==
    {[token |-> "", channel |-> "channel", max_videos |-> 1, min_duration |-> 30],
     [token |-> "token", channel |-> "", max_videos |-> 1, min_duration |-> 30]}
    \cup {[token |-> "token", channel |-> "channel", max_videos |-> t, min_duration |-> 30] :
              t \in Targets}
    \cup {[token |-> "token", channel |-> "channel", max_videos |-> 1, min_duration |-> d] :
              d \in MinDurations}
\* the runtime image (Alpine) ships without ffmpeg
FfmpegPreinstalled == FALSE

VARIABLES
    TELEGRAM_BOT_TOKEN, TELEGRAM_CHANNEL_ID, MAX_VIDEOS, MIN_DURATION,  \* configuration
    history_file,     \* content of HISTORY_FILE
    runs,             \* runs of main() started so far
    pc,               \* position of each run in main()
    posted_history, video_ids, new_ids, idx, stats, video_id,
    strategy_idx, video_info, tmpdir, requested, video_path, success,
    result,           \* what main() returned, or "exception" if it raised
    network,          \* network-touching steps executed by the run
    published,        \* ids passed to post_to_telegram by the run, in order
    info,             \* the latest answer of extract_info in get_video_info
    extra,            \* download_video: the options of the strategy it applies
    rate_limited,     \* the download that just failed was refused for rate limiting
    load_failed,      \* load_history could not read the ledger
    recorded,         \* ids ever written to the history file
    ever_posted       \* ids ever published successfully

config == <<TELEGRAM_BOT_TOKEN, TELEGRAM_CHANNEL_ID, MAX_VIDEOS, MIN_DURATION>>
locals == <<posted_history, video_ids, new_ids, idx, stats, video_id,
            strategy_idx, video_info, tmpdir, requested, video_path, success,
            result, network, published, info, extra, rate_limited, load_failed>>
vars == <<config, history_file, runs, pc, locals, recorded, ever_posted>>

\* --------------------------------------------------------------- helpers
RECURSIVE SeqsUpTo(_, _)
SeqsUpTo(S, n) ==
    IF n = 0 THEN {<<>>}
    ELSE LET shorter == SeqsUpTo(S, n - 1)
         IN shorter \cup {Append(s, x) : s \in {t \in shorter : Len(t) = n - 1}, x \in S}

\* what ydl.extract_info(search_url) can yield: any list of ids, repeats included
SearchResults == SeqsUpTo(Ids, MaxLen)

FilterNothing(s, excluded) == s
RECURSIVE Filter(_, _)
Filter(s, excluded) ==
    IF s = <<>> THEN <<>>
    ELSE IF Head(s) \in excluded THEN Filter(Tail(s), excluded)
         ELSE <<Head(s)>> \o Filter(Tail(s), excluded)

Count(log, v) == Cardinality({i \in DOMAIN log : log[i] = v})

ZeroStats == [posted |-> 0, no_info |-> 0, dl_fail |-> 0, tg_fail |-> 0]

\* no strategy options in use
NoExtra == [client |-> "none", cookies |-> FALSE]

\* no answer of extract_info at hand
NoInfo == [kind |-> "none", duration |-> 0]

\* --------------------------------------------------------------- history
NoFile == [state |-> "missing", ids |-> {}]

\* load_history: a missing file, a failing open() and malformed JSON all
\* yield the empty set
load_history_stale(f, io_ok) == f.ids
load_history(f, io_ok) ==
    IF f.state = "ok" /\ io_ok THEN f.ids ELSE {}

SaveOutcomes == {"ok", "open_fail", "write_fail"}

\* save_history: open(HISTORY_FILE, "w") truncates, json.dump writes the
\* whole set.  open_fail: open() raised; write_fail: the dump raised after
\* the truncation.
save_history(f, history, outcome) ==
    CASE outcome = "ok" -> [state |-> "ok", ids |-> history]
      [] outcome = "open_fail" -> f
      [] outcome = "write_fail" -> [state |-> "corrupt", ids |-> {}]

\* ------------------------------------------------------------------ Init
Init ==
    /\ \E env \in Environments :
         /\ TELEGRAM_BOT_TOKEN = env.token
         /\ TELEGRAM_CHANNEL_ID = env.channel
         /\ MAX_VIDEOS = env.max_videos
         /\ MIN_DURATION = env.min_duration
    /\ history_file = NoFile
    /\ runs = 0
    /\ pc = [p \in Procs |-> "idle"]
    /\ posted_history = [p \in Procs |-> {}]
    /\ video_ids = [p \in Procs |-> <<>>]
    /\ new_ids = [p \in Procs |-> <<>>]
    /\ idx = [p \in Procs |-> 0]
    /\ stats = [p \in Procs |-> ZeroStats]
    /\ video_id = [p \in Procs |-> None]
    /\ strategy_idx = [p \in Procs |-> 0]
    /\ video_info = [p \in Procs |-> None]
    /\ tmpdir = [p \in Procs |-> FALSE]
    /\ requested = [p \in Procs |-> {}]
    /\ video_path = [p \in Procs |-> None]
    /\ success = [p \in Procs |-> FALSE]
    /\ result = [p \in Procs |-> None]
    /\ network = [p \in Procs |-> {}]
    /\ published = [p \in Procs |-> <<>>]
    /\ info = [p \in Procs |-> NoInfo]
    /\ extra = [p \in Procs |-> NoExtra]
    /\ rate_limited = [p \in Procs |-> FALSE]
    /\ load_failed = [p \in Procs |-> FALSE]
    /\ recorded = {}
    /\ ever_posted = {}

\* --------------------------------------------------------------- actions
\* main_handler: asyncio.run(main())
StartRun(p) ==
    /\ pc[p] = "idle"
    /\ runs < MaxRuns
    /\ runs' = runs + 1
    /\ pc' = [pc EXCEPT ![p] = "install_ffmpeg"]
    /\ UNCHANGED <<config, history_file, locals, recorded, ever_posted>>

\* install_ffmpeg: when `ffmpeg -version` succeeds nothing is installed;
\* otherwise the package manager is invoked and succeeds or fails.  main()
\* only logs the outcome.
InstallFfmpeg(p) ==
    /\ pc[p] = "install_ffmpeg"
    /\ \E installed \in BOOLEAN :
         network' = [network EXCEPT ![p] =
                        IF FfmpegPreinstalled THEN @ ELSE @ \cup {"apk"}]
    /\ pc' = [pc EXCEPT ![p] = "ensure_latest_ytdlp"]
    /\ UNCHANGED <<config, extra, rate_limited, load_failed, history_file, runs, posted_history, video_ids,
                   new_ids, idx, stats, video_id, strategy_idx, video_info,
                   tmpdir, requested, video_path, success, result, published, info,
                   recorded, ever_posted>>

\* ensure_latest_ytdlp: pip install --upgrade yt-dlp, every outcome swallowed
EnsureLatestYtdlp(p) ==
    /\ pc[p] = "ensure_latest_ytdlp"
    /\ network' = [network EXCEPT ![p] = @ \cup {"pip"}]
    /\ pc' = [pc EXCEPT ![p] = "config"]
    /\ UNCHANGED <<config, extra, rate_limited, load_failed, history_file, runs, posted_history, video_ids,
                   new_ids, idx, stats, video_id, strategy_idx, video_info,
                   tmpdir, requested, video_path, success, result, published, info,
                   recorded, ever_posted>>

\* main, config validation
ConfigError ==
    IF TELEGRAM_BOT_TOKEN = "" THEN "Missing TELEGRAM_BOT_TOKEN"
    ELSE IF TELEGRAM_CHANNEL_ID = "" THEN "Missing TELEGRAM_CHANNEL_ID"
    ELSE None

ValidateConfig(p) ==
    /\ pc[p] = "config"
    /\ IF ConfigError # None
       THEN /\ result' = [result EXCEPT ![p] = ConfigError]
            /\ pc' = [pc EXCEPT ![p] = "return"]
       ELSE /\ pc' = [pc EXCEPT ![p] = "load_history"]
            /\ UNCHANGED result
    /\ UNCHANGED <<config, extra, rate_limited, load_failed, history_file, runs, posted_history, video_ids,
                   new_ids, idx, stats, video_id, strategy_idx, video_info,
                   tmpdir, requested, video_path, success, network, published, info,
                   recorded, ever_posted>>

\* main: posted_history = load_history()
LoadHistory(p) ==
    /\ pc[p] = "load_history"
    /\ \E io_ok \in BOOLEAN :
         /\ posted_history' = [posted_history EXCEPT ![p] = load_history(history_file, io_ok)]
         /\ load_failed' = [load_failed EXCEPT ![p] = ~(history_file.state = "ok" /\ io_ok)]
    /\ pc' = [pc EXCEPT ![p] = "search"]
    /\ UNCHANGED <<config, extra, rate_limited, history_file, runs, video_ids, new_ids, idx, stats,
                   video_id, strategy_idx, video_info, tmpdir, requested,
                   video_path, success, result, network, published, info, recorded,
                   ever_posted>>

\* main: if not video_ids: return {"error": "No videos found"}
SearchFailedIgnored(found) == FALSE
SearchFailed(found) == found = <<>>

\* main: video_ids = search_youtube(...); the empty list is both "no
\* results" and a search that raised (search_youtube swallows it)
SearchYoutubeIn(p, results) ==
    /\ pc[p] = "search"
    /\ network' = [network EXCEPT ![p] = @ \cup {"search"}]
    /\ \E found \in results :
         /\ video_ids' = [video_ids EXCEPT ![p] = found]
         /\ IF SearchFailed(found)
            THEN /\ result' = [result EXCEPT ![p] = "No videos found"]
                 /\ pc' = [pc EXCEPT ![p] = "return"]
                 /\ UNCHANGED <<new_ids, stats, idx>>
            ELSE /\ new_ids' = [new_ids EXCEPT ![p] = Filter(found, posted_history[p])]
                 /\ stats' = [stats EXCEPT ![p] = ZeroStats]
                 /\ idx' = [idx EXCEPT ![p] = 0]
                 /\ pc' = [pc EXCEPT ![p] = "loop"]
                 /\ UNCHANGED result
    /\ UNCHANGED <<config, extra, rate_limited, load_failed, history_file, runs, posted_history, video_id,
                   strategy_idx, video_info, tmpdir, requested, video_path,
                   success, published, info, recorded, ever_posted>>

\* ------------------------------------------------------------ strategies
\* get_video_info: the strategies list, in order
strategies == <<"tv_embedded", "android_cookie", "ios_cookie", "web_cookie", "mweb_cookie">>

\* get_video_info, strategies[..]["opts"]: the platform client and whether
\* cookie_opts are passed
ProbeOpts(name) ==
    CASE name = "tv_embedded" -> [client |-> "tv_embedded", cookies |-> FALSE]
      [] name = "android_cookie" -> [client |-> "android", cookies |-> TRUE]
      [] name = "ios_cookie" -> [client |-> "ios", cookies |-> TRUE]
      [] name = "web_cookie" -> [client |-> "web", cookies |-> TRUE]
      [] name = "mweb_cookie" -> [client |-> "mweb", cookies |-> TRUE]

\* download_video, strategy_extra.get(strategy_name, {**cookie_opts})
strategy_extra(name) ==
    CASE name = "tv_embedded" -> [client |-> "tv_embedded", cookies |-> FALSE]
      [] name = "android_cookie" -> [client |-> "android", cookies |-> TRUE]
      [] name = "ios_cookie" -> [client |-> "ios", cookies |-> TRUE]
      [] name = "web_cookie" -> [client |-> "web", cookies |-> TRUE]
      [] name = "mweb_cookie" -> [client |-> "mweb", cookies |-> TRUE]
      [] OTHER -> [client |-> "default", cookies |-> TRUE]

\* download_video: strategy_name = video_info.get("successful_strategy",
\* "android_cookie")
strategy_name_default(vi) == "android_cookie"
strategy_name(vi) == vi.successful_strategy

\* what one ydl.extract_info(url, download=False) can do: raise, return
\* nothing, or return metadata (a missing or null duration reads as 0)
Durations == {0, 29, 30, MAX_DURATION, MAX_DURATION + 1}
ProbeOutcomes ==
    {[kind |-> "raise", duration |-> 0], [kind |-> "empty", duration |-> 0]}
    \cup {[kind |-> "info", duration |-> d] : d \in Durations}

\* get_video_info, body of the loop over strategies: "next" (continue /
\* except), "reject" (return None, duration out of range), "accept"
StrategyResultEmptyStops(out) ==
    IF out.kind = "raise" THEN "next"
    ELSE IF out.kind = "empty" THEN "reject"
    ELSE IF out.duration < MIN_DURATION \/ out.duration > MAX_DURATION THEN "reject"
    ELSE "accept"
StrategyResult(out) ==
    IF out.kind \in {"raise", "empty"} THEN "next"
    ELSE IF out.duration < MIN_DURATION \/ out.duration > MAX_DURATION THEN "reject"
    ELSE "accept"

\* --------------------------------------------------------------- formats
\* the stream variants a video may offer (filesize in MB, -1 = not declared)
FormatCatalog ==
    [v720 |-> [vcodec |-> TRUE,  acodec |-> FALSE, ext |-> "mp4", height |-> 720,
               filesize |-> 30, protocol |-> "https"],
     a128 |-> [vcodec |-> FALSE, acodec |-> TRUE,  ext |-> "m4a", height |-> 0,
               filesize |-> 20, protocol |-> "https"],
     c360 |-> [vcodec |-> TRUE,  acodec |-> TRUE,  ext |-> "mp4", height |-> 360,
               filesize |-> 10, protocol |-> "https"],
     c720 |-> [vcodec |-> TRUE,  acodec |-> TRUE,  ext |-> "mp4", height |-> 720,
               filesize |-> 60, protocol |-> "https"],
     h480 |-> [vcodec |-> TRUE,  acodec |-> TRUE,  ext |-> "mp4", height |-> 480,
               filesize |-> -1, protocol |-> "m3u8"]]
FormatNames == DOMAIN FormatCatalog
\* size on disk of a format that declares none
UndeclaredSizes == {Ceiling, Ceiling + 1}

Best(S) == CHOOSE f \in S : \A g \in S : FormatCatalog[g].height <= FormatCatalog[f].height

\* download_video, strategy_extra: only tv_embedded skips the HLS manifests
Available(offered, strategy) ==
    IF strategy = "tv_embedded"
    THEN {f \in offered : FormatCatalog[f].protocol # "m3u8"}
    ELSE offered

\* download_video, format_selector, alternative by alternative:
\*   bestvideo[ext=mp4][height<=720][filesize<45M]+bestaudio[ext=m4a]
\*   /best[ext=mp4][height<=720][filesize<45M] /best[height<=480] /best
\* (bestvideo/bestaudio are video-only/audio-only, best has both tracks; a
\* filter on an undeclared filesize does not match)
SelectFormat(avail) ==
    LET F == FormatCatalog
        small(f) == F[f].filesize >= 0 /\ F[f].filesize < Ceiling
        bestvideo == {f \in avail : F[f].vcodec /\ ~F[f].acodec /\ F[f].ext = "mp4"
                                    /\ F[f].height <= MaxHeight /\ small(f)}
        bestaudio == {f \in avail : F[f].acodec /\ ~F[f].vcodec /\ F[f].ext = "m4a"}
        both == {f \in avail : F[f].vcodec /\ F[f].acodec}
        alt2 == {f \in both : F[f].ext = "mp4" /\ F[f].height <= MaxHeight /\ small(f)}
        alt3 == {f \in both : F[f].height <= FallbackHeight}
    IN IF bestvideo # {} /\ bestaudio # {} THEN {Best(bestvideo), Best(bestaudio)}
       ELSE IF alt2 # {} THEN {Best(alt2)}
       ELSE IF alt3 # {} THEN {Best(alt3)}
       ELSE IF both # {} THEN {Best(both)}
       ELSE {}

\* sizes the downloaded (and, for two formats, merged) file can have
RECURSIVE SumSizes(_)
SumSizes(S) ==
    IF S = {} THEN 0
    ELSE LET f == CHOOSE x \in S : TRUE
         IN FormatCatalog[f].filesize + SumSizes(S \ {f})

FileSizes(sel) ==
    IF \E f \in sel : FormatCatalog[f].filesize < 0 THEN UndeclaredSizes
    ELSE {SumSizes(sel)}

SelfContained(f) ==
    FormatCatalog[f].vcodec /\ FormatCatalog[f].acodec /\ FormatCatalog[f].protocol # "m3u8"

\* ------------------------------------------------------- candidate loop
\* main: if stats["posted"] >= MAX_VIDEOS: break
TargetReachedOffByOne(posted) == posted > MAX_VIDEOS
TargetReached(posted) == posted >= MAX_VIDEOS

\* the candidate's local values are dead once it is finished: every one is
\* assigned again before it is read
NextCandidate(p) ==
    /\ pc' = [pc EXCEPT ![p] = "loop"]
    /\ video_info' = [video_info EXCEPT ![p] = None]
    /\ strategy_idx' = [strategy_idx EXCEPT ![p] = 0]
    /\ requested' = [requested EXCEPT ![p] = {}]
    /\ video_path' = [video_path EXCEPT ![p] = None]
    /\ success' = [success EXCEPT ![p] = FALSE]

\* main: for video_id in new_ids, the target check, the call of
\* get_video_info; the end of the loop returns stats
LoopHead(p) ==
    /\ pc[p] = "loop"
    /\ IF idx[p] = Len(new_ids[p])
       THEN /\ result' = [result EXCEPT ![p] = "stats"]
            /\ pc' = [pc EXCEPT ![p] = "return"]
            /\ UNCHANGED <<idx, video_id, strategy_idx>>
       ELSE /\ idx' = [idx EXCEPT ![p] = @ + 1]
            /\ video_id' = [video_id EXCEPT ![p] = new_ids[p][idx[p] + 1]]
            /\ IF TargetReached(stats[p].posted)
               THEN /\ result' = [result EXCEPT ![p] = "stats"]
                    /\ pc' = [pc EXCEPT ![p] = "return"]
                    /\ UNCHANGED strategy_idx
               ELSE /\ pc' = [pc EXCEPT ![p] = "get_video_info"]
                    /\ strategy_idx' = [strategy_idx EXCEPT ![p] = 1]
                    /\ UNCHANGED result
    /\ UNCHANGED <<config, extra, rate_limited, load_failed, history_file, runs, posted_history, video_ids,
                   new_ids, stats, video_info, tmpdir, requested, video_path,
                   success, network, published, recorded, ever_posted>>
    /\ info' = [info EXCEPT ![p] = NoInfo]

\* get_video_info: one pass of the loop over strategies; main counts a
\* None in no_info and continues.  Of the returned dict the model keeps id
\* and successful_strategy; the other keys only feed the caption.
TryStrategy(p) ==
    /\ pc[p] = "get_video_info"
    /\ network' = [network EXCEPT ![p] = @ \cup {"probe"}]
    /\ \E out \in ProbeOutcomes :
         LET r == StrategyResult(out) IN
         /\ info' = [info EXCEPT ![p] = out]
         /\ rate_limited' = [rate_limited EXCEPT ![p] = FALSE]
         /\ IF r = "accept"
            THEN /\ video_info' = [video_info EXCEPT ![p] =
                       [id |-> video_id[p],
                        successful_strategy |-> strategies[strategy_idx[p]]]]
                 /\ pc' = [pc EXCEPT ![p] = "tmpdir"]
                 /\ UNCHANGED <<stats, strategy_idx, requested, video_path, success>>
            ELSE IF r = "next" /\ strategy_idx[p] < Len(strategies)
            THEN /\ strategy_idx' = [strategy_idx EXCEPT ![p] = @ + 1]
                 /\ UNCHANGED <<stats, pc, video_info, requested, video_path, success>>
            ELSE /\ stats' = [stats EXCEPT ![p].no_info = @ + 1]
                 /\ NextCandidate(p)
    /\ UNCHANGED <<config, extra, load_failed, history_file, runs, posted_history, video_ids,
                   new_ids, idx, video_id, tmpdir, result, published, recorded,
                   ever_posted>>

\* main: with tempfile.TemporaryDirectory() as tmpdir
MakeTmpdir(p) ==
    /\ pc[p] = "tmpdir"
    /\ tmpdir' = [tmpdir EXCEPT ![p] = TRUE]
    /\ info' = [info EXCEPT ![p] = NoInfo]
    /\ pc' = [pc EXCEPT ![p] = "download"]
    /\ UNCHANGED <<config, extra, rate_limited, load_failed, history_file, runs, posted_history, video_ids,
                   new_ids, idx, stats, video_id, strategy_idx, video_info,
                   requested, video_path, success, result, network, published,
                   recorded, ever_posted>>

\* leaving the with block, by "continue", at its end or by an exception:
\* TemporaryDirectory.__exit__ removes the directory.  The value is whether
\* the directory still exists afterwards.
WithExitLeakOnContinue(how) == how = "continue"
WithExit(how) == FALSE

\* download_video, ydl.download([url]): it succeeds, or raises (any error, or
\* the provider's rate-limit refusal, HTTP 429)
DownloadOutcomes == {"ok", "error", "rate_limited"}

\* download_video and main's handling of None.  A selector that matches no
\* format and a failing transfer both raise inside the try: None.  Otherwise
\* the first file found in output_dir is returned as it is.
DownloadVideo(p) ==
    /\ pc[p] = "download"
    /\ network' = [network EXCEPT ![p] = @ \cup {"download"}]
    /\ \E offered \in SUBSET FormatNames, outcome \in DownloadOutcomes :
         LET name == strategy_name(video_info[p])
             sel == SelectFormat(Available(offered, name)) IN
         IF sel = {} \/ outcome # "ok"
         THEN /\ stats' = [stats EXCEPT ![p].dl_fail = @ + 1]
              /\ tmpdir' = [tmpdir EXCEPT ![p] = WithExit("continue")]
              /\ rate_limited' = [rate_limited EXCEPT ![p] = (outcome = "rate_limited")]
              /\ NextCandidate(p)
              /\ UNCHANGED extra
         ELSE /\ requested' = [requested EXCEPT ![p] = sel]
              /\ extra' = [extra EXCEPT ![p] = strategy_extra(name)]
              /\ \E size \in FileSizes(sel) :
                   video_path' = [video_path EXCEPT ![p] = [size |-> size]]
              /\ pc' = [pc EXCEPT ![p] = "post"]
              /\ UNCHANGED <<stats, tmpdir, video_info, strategy_idx, success,
                             rate_limited>>
    /\ UNCHANGED <<config, load_failed, history_file, runs, posted_history, video_ids,
                   new_ids, idx, video_id, result, published, info, recorded,
                   ever_posted>>

\* post_to_telegram: only TelegramError is caught (return False).  Anything
\* else raised by Bot(), the caption formatting, os.path.getsize, open() or
\* send_video leaves post_to_telegram and main() as an exception.
PostOutcomes == {"ok", "TelegramError", "Exception"}

\* post_to_telegram: return True after send_video, return False in
\* except TelegramError
SendResultAlwaysTrue(outcome) == TRUE
SendResult(outcome) == outcome = "ok"

PostToTelegram(p) ==
    /\ pc[p] = "post"
    /\ network' = [network EXCEPT ![p] = @ \cup {"publish"}]
    /\ published' = [published EXCEPT ![p] = Append(@, video_id[p])]
    /\ extra' = [extra EXCEPT ![p] = NoExtra]
    /\ \E outcome \in PostOutcomes :
         IF outcome = "Exception"
         THEN /\ tmpdir' = [tmpdir EXCEPT ![p] = WithExit("exception")]
              /\ result' = [result EXCEPT ![p] = "exception"]
              /\ pc' = [pc EXCEPT ![p] = "return"]
              /\ UNCHANGED <<success, ever_posted>>
         ELSE /\ success' = [success EXCEPT ![p] = SendResult(outcome)]
              /\ ever_posted' = IF outcome = "ok" THEN ever_posted \cup {video_id[p]}
                                ELSE ever_posted
              /\ tmpdir' = [tmpdir EXCEPT ![p] = WithExit("end")]
              /\ pc' = [pc EXCEPT ![p] = "record"]
              /\ UNCHANGED result
    /\ UNCHANGED <<config, rate_limited, load_failed, history_file, runs, posted_history, video_ids,
                   new_ids, idx, stats, video_id, strategy_idx, video_info,
                   requested, video_path, info, recorded>>

\* save_history: except Exception logs a warning, nothing is raised
save_history_propagates(outcome) == outcome # "ok"
save_history_raises(outcome) == FALSE

\* main: if success: posted += 1, posted_history.add, save_history
\*       else: tg_fail += 1
Record(p) ==
    /\ pc[p] = "record"
    /\ IF success[p]
       THEN \E outcome \in SaveOutcomes :
              LET history == posted_history[p] \cup {video_id[p]} IN
              /\ stats' = [stats EXCEPT ![p].posted = @ + 1]
              /\ posted_history' = [posted_history EXCEPT ![p] = history]
              /\ history_file' = save_history(history_file, history, outcome)
              /\ recorded' = IF outcome = "ok" THEN recorded \cup history ELSE recorded
              /\ IF save_history_raises(outcome)
                 THEN /\ result' = [result EXCEPT ![p] = "exception"]
                      /\ pc' = [pc EXCEPT ![p] = "return"]
                      /\ UNCHANGED <<video_info, strategy_idx, requested,
                                     video_path, success>>
                 ELSE /\ NextCandidate(p)
                      /\ UNCHANGED result
       ELSE /\ stats' = [stats EXCEPT ![p].tg_fail = @ + 1]
            /\ NextCandidate(p)
            /\ UNCHANGED <<posted_history, history_file, recorded, result>>
    /\ UNCHANGED <<config, extra, rate_limited, load_failed, runs, video_ids, new_ids, idx, video_id, tmpdir,
                   network, published, info, ever_posted>>

\* the search with every answer the model knows
SearchYoutube(p) == SearchYoutubeIn(p, SearchResults)

\* main_handler returns context.res.json(result) (or the exception
\* propagates); the run's local state is gone
InitialLocals(p) ==
    /\ posted_history' = [posted_history EXCEPT ![p] = {}]
    /\ video_ids' = [video_ids EXCEPT ![p] = <<>>]
    /\ new_ids' = [new_ids EXCEPT ![p] = <<>>]
    /\ idx' = [idx EXCEPT ![p] = 0]
    /\ stats' = [stats EXCEPT ![p] = ZeroStats]
    /\ video_id' = [video_id EXCEPT ![p] = None]
    /\ strategy_idx' = [strategy_idx EXCEPT ![p] = 0]
    /\ video_info' = [video_info EXCEPT ![p] = None]
    /\ tmpdir' = [tmpdir EXCEPT ![p] = FALSE]
    /\ requested' = [requested EXCEPT ![p] = {}]
    /\ video_path' = [video_path EXCEPT ![p] = None]
    /\ success' = [success EXCEPT ![p] = FALSE]
    /\ result' = [result EXCEPT ![p] = None]
    /\ network' = [network EXCEPT ![p] = {}]
    /\ published' = [published EXCEPT ![p] = <<>>]
    /\ info' = [info EXCEPT ![p] = NoInfo]
    /\ extra' = [extra EXCEPT ![p] = NoExtra]
    /\ rate_limited' = [rate_limited EXCEPT ![p] = FALSE]
    /\ load_failed' = [load_failed EXCEPT ![p] = FALSE]

Exit(p) ==
    /\ pc[p] = "return"
    /\ pc' = [pc EXCEPT ![p] = "idle"]
    /\ InitialLocals(p)
    /\ UNCHANGED <<config, history_file, runs, recorded, ever_posted>>

\* runs are started one at a time (one scheduled execution at a time)
\* and the first idle worker takes the run
Sequential(p) == \A q \in Procs : pc[q] = "idle" /\ p <= q

Next ==
    \E p \in Procs :
        \/ Sequential(p) /\ StartRun(p)
        \/ InstallFfmpeg(p)
        \/ EnsureLatestYtdlp(p)
        \/ ValidateConfig(p)
        \/ LoadHistory(p)
        \/ SearchYoutube(p)
        \/ LoopHead(p)
        \/ TryStrategy(p)
        \/ MakeTmpdir(p)
        \/ DownloadVideo(p)
        \/ PostToTelegram(p)
        \/ Record(p)
        \/ Exit(p)

Spec == Init /\ [][Next]_vars

\* ------------------------------------------------------ overlapping runs
\* two executions of main() may overlap: a run is started while another is
\* still under way, and both work on the same HISTORY_FILE.  The search
\* finds nothing or the one video "a" (both runs are given the same query);
\* the configuration is complete with MAX_VIDEOS = 1.
RaceSearchResults == {<<>>, <<"a">>}

RaceSearchYoutube(p) == SearchYoutubeIn(p, RaceSearchResults)

InitRace ==
    /\ Init
    /\ TELEGRAM_BOT_TOKEN = "token" /\ TELEGRAM_CHANNEL_ID = "channel"
    /\ MAX_VIDEOS = 1 /\ MIN_DURATION = 30

NextRace ==
    \E p \in Procs :
        \/ StartRun(p)
        \/ InstallFfmpeg(p)
        \/ EnsureLatestYtdlp(p)
        \/ ValidateConfig(p)
        \/ LoadHistory(p)
        \/ RaceSearchYoutube(p)
        \/ LoopHead(p)
        \/ TryStrategy(p)
        \/ MakeTmpdir(p)
        \/ DownloadVideo(p)
        \/ PostToTelegram(p)
        \/ Record(p)
        \/ Exit(p)

SpecRace == InitRace /\ [][NextRace]_vars

\* ================================================================ claims
\* C1: a video id that is in the run's posted-history ledger (loaded at the
\* start of the run or added earlier in the same run) is never passed to
\* get_video_info.
C1_DuplicateExclusion ==
    \A p \in Procs : pc[p] = "get_video_info" => video_id[p] \notin posted_history[p]

\* C2: within one run, post_to_telegram is invoked at most once for every
\* video id.
C2_AtMostOnePostPerRun ==
    \A p \in Procs : \A v \in Ids : Count(published[p], v) <= 1

\* C3: the file download_video returns, which main hands to
\* post_to_telegram, is not empty and is at most the byte ceiling.
C3_SizeBound ==
    \A p \in Procs :
        pc[p] = "post" => (video_path[p].size > 0 /\ video_path[p].size <= Ceiling)

\* C4: what is requested for transfer is one self-contained variant (video
\* and audio present, protocol not segmented), never a video-only plus
\* audio-only pair that has to be merged.
C4_SelfContainedTransfer ==
    \A p \in Procs :
        pc[p] = "post" =>
            (Cardinality(requested[p]) = 1 /\ \A f \in requested[p] : SelfContained(f))

\* C5: when main() returns the configuration error, no network-touching
\* step (package install, yt-dlp upgrade, search, probe, download, publish)
\* has been executed by that run.
C5_ConfigErrorBeforeNetwork ==
    \A p \in Procs :
        result[p] \in {"Missing TELEGRAM_BOT_TOKEN", "Missing TELEGRAM_CHANNEL_ID"}
            => network[p] = {}

\* C6: main() always ends by returning a result object; no outcome of an
\* external call makes an exception leave main().
C6_NeverRaises ==
    \A p \in Procs : result[p] # "exception"

\* C7: an id once written to the history file is in every later version of
\* the file.
C7_LedgerAppendOnly ==
    recorded \subseteq history_file.ids

\* C8: posted never exceeds MAX_VIDEOS, and while a candidate is being
\* probed, downloaded or published, posted is still below MAX_VIDEOS (once
\* the target is reached no further candidate is taken up).
C8_TargetStop ==
    \A p \in Procs :
        /\ stats[p].posted <= MAX_VIDEOS
        /\ pc[p] \in {"get_video_info", "tmpdir", "download", "post"}
               => stats[p].posted < MAX_VIDEOS

\* the loop stopped at a positive target with a candidate left unprocessed
C8_Witness ==
    \E p \in Procs :
        /\ pc[p] = "return" /\ result[p] = "stats"
        /\ MAX_VIDEOS > 0 /\ stats[p].posted = MAX_VIDEOS
        /\ stats[p].posted + stats[p].no_info + stats[p].dl_fail + stats[p].tg_fail < idx[p]

\* C9: a candidate's download directory exists only while that candidate is
\* being downloaded or published: it is gone when the next candidate starts
\* and when the run ends, whatever the exit path.
C9_TmpdirCleanup ==
    \A p \in Procs : tmpdir[p] => pc[p] \in {"download", "post"}

\* a failed download for one candidate, then an exception while the next
\* candidate's directory existed
C9_Witness ==
    \E p \in Procs :
        /\ pc[p] = "return" /\ result[p] = "exception"
        /\ stats[p].dl_fail = 1
        /\ ~tmpdir[p]

\* C10: when save_history fails after a successful publish, the id is
\* counted in posted, nothing is published again or undone, no exception is
\* raised and the run goes on with the next candidate.
C10_SaveFailureSwallowed ==
    [][\A p \in Procs :
          (/\ pc[p] = "record" /\ success[p] /\ pc'[p] # "record"
           /\ history_file' # [state |-> "ok", ids |-> posted_history'[p]])
          => (/\ stats'[p].posted = stats[p].posted + 1
              /\ video_id[p] \in posted_history'[p]
              /\ pc'[p] = "loop" /\ result'[p] = None
              /\ idx'[p] = idx[p] /\ new_ids'[p] = new_ids[p]
              /\ published'[p] = published[p]
              /\ ever_posted' = ever_posted)]_vars

\* a later run probes an id that was published before, the history file
\* never having been written
C10_Witness ==
    \E p \in Procs :
        /\ runs = MaxRuns /\ pc[p] = "get_video_info"
        /\ published[p] = <<>>
        /\ video_id[p] \in ever_posted
        /\ history_file.state = "missing"
\* C11: when search_youtube yields no ids (it raised internally or found
\* nothing), main() returns the error result at once: no candidate has been
\* probed, downloaded, published or counted in that run.
C11_SearchFailureFatal ==
    \A p \in Procs :
        (video_ids[p] = <<>> /\ "search" \in network[p]) =>
            /\ pc[p] = "return" /\ result[p] = "No videos found"
            /\ network[p] \cap {"probe", "download", "publish"} = {}
            /\ published[p] = <<>> /\ stats[p] = ZeroStats /\ idx[p] = 0

\* a run whose search came back empty although the ledger had been written
C11_Witness ==
    \E p \in Procs :
        /\ result[p] = "No videos found" /\ "search" \in network[p]
        /\ history_file.state = "ok"

\* C12: every run ends in one of the terminal states configuration error,
\* upstream search failed, target reached or candidates exhausted (the last
\* two return stats).
C12_TerminalStates ==
    \A p \in Procs :
        pc[p] = "return" =>
            result[p] \in {"Missing TELEGRAM_BOT_TOKEN", "Missing TELEGRAM_CHANNEL_ID",
                           "No videos found", "stats"}
\* C13: get_video_info tries the strategies in list order, starting with the
\* first; a strategy that raises or returns nothing makes the next one be
\* tried; the first strategy that returns metadata produces the result, and
\* when the last strategy has failed too the probe returns None.
C13_ProbeFallbackOrder ==
    /\ [](\A p \in Procs :
            pc[p] = "get_video_info" =>
                /\ strategy_idx[p] \in 1..Len(strategies)
                /\ info[p].kind = "none" => strategy_idx[p] = 1
                /\ strategy_idx[p] > 1 => info[p].kind \in {"raise", "empty"})
    /\ [][\A p \in Procs :
            (/\ pc[p] = "get_video_info"
             /\ (pc'[p] # pc[p] \/ strategy_idx'[p] # strategy_idx[p])) =>
                IF info'[p].kind \in {"raise", "empty"}
                THEN IF strategy_idx[p] < Len(strategies)
                     THEN /\ pc'[p] = "get_video_info"
                          /\ strategy_idx'[p] = strategy_idx[p] + 1
                          /\ stats'[p] = stats[p]
                     ELSE /\ pc'[p] = "loop"
                          /\ stats'[p].no_info = stats[p].no_info + 1
                ELSE /\ info'[p].kind = "info"
                     /\ pc'[p] \in {"tmpdir", "loop"}
                     /\ pc'[p] = "tmpdir" =>
                            video_info'[p].successful_strategy = strategies[strategy_idx[p]]]_vars

\* the third strategy answered after the first two had failed
C13_Witness ==
    \E p \in Procs :
        /\ pc[p] = "tmpdir" /\ strategy_idx[p] = 3
        /\ video_info[p].successful_strategy = "ios_cookie"

\* C14: metadata whose duration is zero or outside [MIN_DURATION,
\* MAX_DURATION] makes get_video_info return None at once: it is never
\* accepted and no later strategy is tried.
C14_PolicyRejectionStops ==
    \A p \in Procs :
        (/\ info[p].kind = "info"
         /\ (info[p].duration = 0 \/ info[p].duration < MIN_DURATION
             \/ info[p].duration > MAX_DURATION))
        => pc[p] = "loop"

\* C15: a candidate that reaches download_video is transferred with the
\* platform client and the credential use of the strategy that succeeded in
\* get_video_info for that candidate; download_video applies that one
\* strategy only, and a failed download moves on to the next candidate
\* without probing the same one again.
C15_StrategyReuse ==
    /\ [](\A p \in Procs :
            pc[p] = "post" =>
              /\ video_info[p].id = video_id[p]
              /\ video_info[p].successful_strategy = strategies[strategy_idx[p]]
              /\ extra[p] = ProbeOpts(strategies[strategy_idx[p]]))
    /\ [][\A p \in Procs :
            pc[p] = "download" /\ pc'[p] # "download" =>
              /\ pc'[p] \in {"post", "loop"}
              /\ idx'[p] = idx[p]
              /\ pc'[p] = "post" => extra'[p] = ProbeOpts(video_info[p].successful_strategy)
              /\ pc'[p] = "loop" => stats'[p].dl_fail = stats[p].dl_fail + 1]_vars

C15_Witness ==
    \E p \in Procs :
        /\ pc[p] = "post"
        /\ strategy_idx[p] = 3
        /\ extra[p] = [client |-> "ios", cookies |-> TRUE]

\* C16: an id enters posted_history, and the history file is written, only
\* in the step that follows a post_to_telegram call of the same run which
\* returned success for that id; a candidate that ends in no_info, dl_fail
\* or tg_fail leaves posted_history and the history file as they were.
C16_LedgerOnlyAfterPublish ==
    [][/\ \A q \in Procs :
            (pc[q] \in {"loop", "get_video_info", "tmpdir", "download", "post", "record"}
               /\ posted_history'[q] # posted_history[q])
            => /\ pc[q] = "record" /\ success[q]
               /\ published[q] # <<>>
               /\ published[q][Len(published[q])] = video_id[q]
               /\ video_id[q] \in ever_posted
               /\ posted_history'[q] = posted_history[q] \cup {video_id[q]}
       /\ history_file' # history_file
            => \E q \in Procs :
                 /\ pc[q] = "record" /\ success[q]
                 /\ video_id[q] \in ever_posted
                 /\ history_file'.ids \subseteq posted_history[q] \cup {video_id[q]}
       /\ \A q \in Procs :
            (\/ stats'[q].no_info > stats[q].no_info
             \/ stats'[q].dl_fail > stats[q].dl_fail
             \/ stats'[q].tg_fail > stats[q].tg_fail)
            => /\ posted_history'[q] = posted_history[q]
               /\ history_file' = history_file]_vars

\* a run has passed a failed publish and a recorded one: the file holds the
\* one id that was published
C16_Witness ==
    \E p \in Procs :
        /\ pc[p] = "loop"
        /\ stats[p].tg_fail = 1 /\ stats[p].posted = 1
        /\ Cardinality(posted_history[p]) = 1
        /\ posted_history[p] \subseteq ever_posted
        /\ history_file.ids = posted_history[p]

\* C17: every candidate the loop takes up adds one to exactly one of posted,
\* no_info, dl_fail, tg_fail when its processing ends, and between
\* candidates the four counters add up to the number of candidates taken so
\* far.
Outcomes(st) == st.posted + st.no_info + st.dl_fail + st.tg_fail

C17_ExactlyOneOutcome ==
    /\ [](\A p \in Procs : pc[p] = "loop" => Outcomes(stats[p]) = idx[p])
    /\ [][\A p \in Procs :
            (pc[p] \in {"get_video_info", "tmpdir", "download", "post", "record"}
               /\ pc'[p] \notin {"get_video_info", "tmpdir", "download", "post", "record"})
            => Outcomes(stats'[p]) = Outcomes(stats[p]) + 1]_vars

\* C18: after a download that the provider refused for rate limiting, a
\* cooldown wait happens before the next candidate is started (rate_limited
\* stays set from the refusal until a wait or the next probe; main has no
\* wait), and the refused candidate is not taken up again.
C18_RateLimitCooldown ==
    \A p \in Procs :
        pc[p] = "get_video_info" /\ strategy_idx[p] = 1 => ~rate_limited[p]

\* C19: when load_history cannot read the ledger (file missing, unreadable
\* or malformed) it yields the empty set, so that every search result is
\* kept as a candidate, and the run goes on to search and to process the
\* candidates instead of ending.
C19_FailOpenGate ==
    /\ [](\A p \in Procs :
            load_failed[p] =>
              /\ pc[p] = "search" => posted_history[p] = {}
              /\ pc[p] \in {"loop", "get_video_info", "tmpdir", "download", "post", "record"}
                   => new_ids[p] = video_ids[p] /\ new_ids[p] # <<>>)
    /\ [][\A p \in Procs :
            pc[p] = "load_history" /\ pc'[p] # "load_history" /\ load_failed'[p]
              => pc'[p] = "search" /\ posted_history'[p] = {}]_vars

\* the ledger on disk names an id, the read of it failed, and the run probes
\* that id
C19_Witness ==
    \E p \in Procs :
        /\ load_failed[p]
        /\ pc[p] = "get_video_info"
        /\ video_id[p] \in history_file.ids

\* C20: within one run the duplicate check and the ledger insert follow one
\* another (an id a run takes up was not in the ledger the run loaded, and
\* the id it published is in its ledger before the next candidate is
\* taken), but two overlapping runs can both load the ledger before either
\* records, and then both publish the same id (C20_Witness).
C20_CrossRunRace ==
    /\ [](\A p \in Procs :
            /\ pc[p] \in {"get_video_info", "tmpdir", "download", "post", "record"}
                 => \E i \in 1..Len(new_ids[p]) : new_ids[p][i] = video_id[p]
            /\ pc[p] = "loop" /\ stats[p].posted > 0
                 => published[p][Len(published[p])] \in posted_history[p])
    /\ [][\A p \in Procs :
            pc[p] = "search" /\ pc'[p] = "loop"
              => \A i \in 1..Len(new_ids'[p]) : new_ids'[p][i] \notin posted_history[p]]_vars

\* both runs are past load_history, neither has written the ledger, and
\* both have published "a"
C20_Witness ==
    \E p, q \in Procs :
        /\ p # q
        /\ pc[p] = "record" /\ success[p]
        /\ pc[q] = "record" /\ success[q]
        /\ video_id[p] = video_id[q]
        /\ published[p] = <<video_id[p]>> /\ published[q] = <<video_id[q]>>
        /\ history_file = NoFile /\ recorded = {}


====
